---- MODULE Spec2Model ----
(***************************************************************************)
(* Model of the LED controller of TrainR (src/src/leds.rs) and of the way  *)
(* its callers drive it (src/src/server.rs, src/src/lib.rs).               *)
(*                                                                         *)
(* Callers are async functions running on a multi-threaded runtime; blink  *)
(* tasks are spawned tasks.  A step of the model is the code between two   *)
(* points where an actor touches shared state: taking or releasing a lock, *)
(* aborting or spawning a task, writing a GPIO line.                       *)
(***************************************************************************)
EXTENDS Integers, Sequences, FiniteSets, TLC

\* ------------------------------------------------------------------------
\* Program constants
\* ------------------------------------------------------------------------
LED_COUNT == 24
U8 == 0..255

GREEN_LEDS == [start |-> 1, end |-> 6]
AMBER_LEDS == [start |-> 7, end |-> 12]
RED_LEDS == [start |-> 13, end |-> 24]

\* Result<u8>
Ok(v) == [tag |-> "Ok", val |-> v]
InvalidParameter == [tag |-> "InvalidParameter", val |-> 0]

\* ------------------------------------------------------------------------
\* Bounds of the model
\* ------------------------------------------------------------------------
MaxTasks == 2
MaxCalls == 2
MaxTicks == 3

\* ------------------------------------------------------------------------
\* Pure functions
\* ------------------------------------------------------------------------
led_to_gpio_pin_off_by_one(led) ==
    IF led < 1 \/ led > LED_COUNT
    THEN InvalidParameter
    ELSE Ok((led + 4) % 256)

led_to_gpio_pin(led) ==
    IF led < 1 \/ led > LED_COUNT
    THEN InvalidParameter
    ELSE Ok((led + 3) % 256)

is_valid_led(led) == led >= 1 /\ led <= LED_COUNT

get_led_from_subset_zero_based(subset, position) ==
    LET start == subset.start
        end == subset.end
        count == (end - start + 1) % 256
    IN  IF position < 1 \/ position > count
        THEN InvalidParameter
        ELSE Ok((start + position) % 256)

get_led_from_subset_clamped(subset, position) ==
    LET start == subset.start
        end == subset.end
    IN  IF position < 1 THEN Ok(start)
        ELSE IF position > (end - start + 1) % 256 THEN Ok(end)
        ELSE Ok((start + position - 1) % 256)

get_led_from_subset(subset, position) ==
    LET start == subset.start
        end == subset.end
        count == (end - start + 1) % 256
    IN  IF position < 1 \/ position > count
        THEN InvalidParameter
        ELSE Ok((start + position - 1) % 256)

\* ------------------------------------------------------------------------
\* State
\* ------------------------------------------------------------------------
VARIABLES
    handles,        \* LedController.handles: led -> GPIO line of its LineHandle
    line,           \* value of every requested GPIO line
    hlock,          \* holder of each handle's Mutex: 0 free, c > 0 caller, -t task
    blink_handles,  \* LedController.blink_handles: led -> task (its JoinHandle)
    blink_lock,     \* holder of the write guard of blink_handles, 0 when free
    tasks,          \* the spawned blink tasks
    callers,        \* the calls in progress, one per caller
    ncalls,         \* number of calls started
    env,            \* who calls, and with which arguments
    fnArg,          \* argument of the pure function applied
    fnRet           \* its result

vars == <<handles, line, hlock, blink_handles, blink_lock, tasks, callers,
          ncalls, env, fnArg, fnRet>>

Leds == 1..LED_COUNT

mutex_shared(led) == 1

\* The Mutex that new() wraps around the LineHandle of a light: one per light.
mutex(led) == led
Tasks == 1..MaxTasks
CallerIds == {1, 2}

\* ticks, wrote and late are the history of a task, kept when env.history
\* asks for it: the writes it has attempted, the value of the last one, and
\* the writes it has completed since it was aborted.
NoTask ==
    [led |-> 0, period |-> 0, pc |-> "none", aborted |-> FALSE, state |-> FALSE,
     ticks |-> 0, wrote |-> 0, late |-> 0]

\* via, subset and position are those of a color-qualified call; idx, cur
\* and seen are the iteration of all_off: the number of the handle it is at,
\* the light of that handle once it is yielded, and the lights a call can
\* name among those the iteration has yielded.
IdleCaller ==
    [op |-> "none", led |-> 0, period |-> 0, pc |-> "idle", res |-> "none",
     victims |-> {}, task |-> 0, idx |-> 0, cur |-> 0, seen |-> {},
     via |-> "none", subset |-> GREEN_LEDS, position |-> 0]

Subsets == {GREEN_LEDS, AMBER_LEDS, RED_LEDS}

\* LedController::new
new ==
    /\ handles = [led \in Leds |-> led_to_gpio_pin(led).val]
    /\ line = [p \in {led_to_gpio_pin(led).val : led \in Leds} |-> 0]
    /\ hlock = [m \in {mutex(led) : led \in Leds} |-> 0]
    /\ blink_handles = << >>
    /\ blink_lock = 0
    /\ tasks = [t \in Tasks |-> NoTask]

\* ------------------------------------------------------------------------
\* Helpers
\* ------------------------------------------------------------------------
Spawned == {t \in Tasks : tasks[t].pc # "none"}

\* A spawned task that has not been aborted and has not ended.
Live(t) == tasks[t].pc \notin {"none", "dead"} /\ ~tasks[t].aborted

\* Blink calls that passed the period check and have not spawned yet.
Spawning ==
    {c \in CallerIds : callers[c].op = "blink"
                       /\ callers[c].pc \in {"cancel_wait", "cancel", "get"}}

abort_forgotten(ts, t) == ts

\* JoinHandle::abort: a task suspended at an await is dropped without running
\* again; a task that is being polled keeps running until its next await that
\* returns Pending.
\* A dropped task keeps no toggle.
Dropped(task) ==
    [task EXCEPT !.pc = "dead", !.aborted = TRUE, !.state = FALSE,
                 !.ticks = 0, !.wrote = 0, !.late = 0]

abort(ts, t) ==
    IF ts[t].pc \in {"sleep", "waitlock"}
    THEN [ts EXCEPT ![t] = Dropped(@)]
    ELSE IF ts[t].pc = "dead"
         THEN ts
         ELSE [ts EXCEPT ![t].aborted = TRUE]

RECURSIVE abort_all(_, _)
abort_all(ts, S) ==
    IF S = {} THEN ts
    ELSE LET t == CHOOSE x \in S : TRUE
         IN  abort_all(abort(ts, t), S \ {t})

set_value_flipping(led, v, ok) ==
    line' = IF ok THEN [line EXCEPT ![handles[led]] = 1 - @] ELSE line

\* LineHandle::set_value: the line takes the value, or the ioctl fails and
\* the line keeps its value.
set_value(led, v, ok) ==
    line' = IF ok THEN [line EXCEPT ![handles[led]] = v] ELSE line

mutex_free_always(led) == TRUE

\* Mutex::lock completes only when nobody holds the mutex.
mutex_free(led) == hlock[mutex(led)] = 0

drop_forgotten(guard) == guard

\* Dropping the write guard of blink_handles (at the end of cancel_blink and
\* of blink, by drop(handles) in all_off) frees the RwLock.
drop(guard) == 0

discard_propagated(ok) == ok

\* let _ = set_value(..): the task drops the Result of its write and goes on.
discard(ok) == TRUE

level_inverted(state) == IF state THEN 0 ELSE 1

\* state = !state; set_value(if state { 1 } else { 0 })
toggle(state) == ~state
level(state) == IF state THEN 1 ELSE 0

\* The history of a task after a write of v that it survives.
Recorded(task, v) ==
    IF env.history
    THEN [task EXCEPT !.ticks = @ + 1, !.wrote = v,
                      !.late = IF task.aborted THEN @ + 1 ELSE @]
    ELSE task

unlock_leaked(h, led) == h

\* Dropping a MutexGuard (at the end of the function, of the loop body or of
\* the task's loop iteration) frees the mutex.
unlock(h, led) == [h EXCEPT ![mutex(led)] = 0]

period_ok_always(frequency_ms) == TRUE

\* The period check of blink.
period_ok(frequency_ms) == frequency_ms # 0

\* Outcomes of a write: a failing ioctl is part of the environment.
Outcomes == IF env.faults THEN BOOLEAN ELSE {TRUE}

Insert_alone(m, k, v) == [x \in {k} |-> v]

Remove_kept(m, k) == m

Remove(m, k) == [x \in DOMAIN m \ {k} |-> m[x]]
Insert(m, k, v) == [x \in DOMAIN m \cup {k} |-> IF x = k THEN v ELSE m[x]]

fnvars == <<fnArg, fnRet>>
fixed == <<handles, env>>

\* ------------------------------------------------------------------------
\* Callers: the HTTP handlers of server.rs run concurrently and call the
\* controller behind their guards (env.server); an owner of a LedController
\* calls its public functions with any arguments. env.ops[c] is the set of
\* operations that caller c calls.
\* ------------------------------------------------------------------------
CanCall(c) ==
    /\ c \in env.callers
    /\ callers[c].pc \in {"idle", "done"}
    /\ ncalls < env.maxCalls

\* The guards of the HTTP handlers: set_led_on, set_led_off and set_led_blink
\* answer NOT_FOUND to a light id outside 1..24, and set_led_blink answers
\* BAD_REQUEST to a period of 0, without calling the controller.
path_ok(led) == ~(led < 1 \/ led > 24)
body_ok(frequency_ms) == ~(frequency_ms = 0)

\* A call of on or off with this light id reaches the controller.
Routed(led) == env.server => path_ok(led)

\* A call of blink with this light id and this period reaches the controller.
RoutedBlink(led, frequency_ms) ==
    env.server => (path_ok(led) /\ body_ok(frequency_ms))

CallFrom(base, c, op, led, period, pc) ==
    /\ callers' = [callers EXCEPT ![c] =
           [base EXCEPT !.op = op, !.led = led, !.period = period, !.pc = pc]]
    /\ ncalls' = ncalls + 1

Call(c, op, led, period, pc) == CallFrom(IdleCaller, c, op, led, period, pc)

\* A call that fails before its first await.
Fail(base, c, op, led) ==
    /\ callers' = [callers EXCEPT ![c] =
           [base EXCEPT !.op = op, !.led = led, !.pc = "done",
                        !.res = "InvalidParameter"]]
    /\ ncalls' = ncalls + 1

Return(c, res) ==
    callers' = [callers EXCEPT ![c].pc = "done", ![c].res = res]

\* LedController::cancel_blink, first half: blink_handles.write().await
cancel_blink_lock(c) ==
    /\ callers[c].pc = "cancel_wait"
    /\ blink_lock = 0
    /\ blink_lock' = c
    /\ callers' = [callers EXCEPT ![c].pc = "cancel"]
    /\ UNCHANGED <<fixed, fnvars, line, hlock, blink_handles, tasks, ncalls>>

\* LedController::cancel_blink, second half: remove, abort, drop the guard
cancel_blink(c) ==
    LET led == callers[c].led IN
    /\ callers[c].pc = "cancel"
    /\ IF led \in DOMAIN blink_handles
       THEN /\ blink_handles' = Remove(blink_handles, led)
            /\ tasks' = abort(tasks, blink_handles[led])
            /\ callers' = [callers EXCEPT ![c].pc = "get",
                                          ![c].victims = {blink_handles[led]}]
       ELSE /\ UNCHANGED <<blink_handles, tasks>>
            /\ callers' = [callers EXCEPT ![c].pc = "get"]
    /\ blink_lock' = drop(blink_lock)
    /\ UNCHANGED <<fixed, fnvars, line, hlock, ncalls>>

\* handles.read().await and handles.get(&led) of on and off
get_handle(c) ==
    /\ callers[c].pc = "get"
    /\ callers[c].op \in {"on", "off"}
    /\ IF callers[c].led \in DOMAIN handles
       THEN callers' = [callers EXCEPT ![c].pc = "lock"]
       ELSE Return(c, "InvalidParameter")
    /\ UNCHANGED <<fixed, fnvars, line, hlock, blink_handles, blink_lock, tasks, ncalls>>

\* handle.lock().await of on and off
lock_handle(c) ==
    /\ callers[c].pc = "lock"
    /\ mutex_free(callers[c].led)
    /\ hlock' = [hlock EXCEPT ![mutex(callers[c].led)] = c]
    /\ callers' = [callers EXCEPT ![c].pc = "hold"]
    /\ UNCHANGED <<fixed, fnvars, line, blink_handles, blink_lock, tasks, ncalls>>

\* set_value of on (1) and off (0); the guards are dropped on return
write_handle(c) ==
    /\ callers[c].pc = "hold"
    /\ \E ok \in Outcomes :
          /\ set_value(callers[c].led, IF callers[c].op = "on" THEN 1 ELSE 0, ok)
          /\ Return(c, IF ok THEN "Ok" ELSE "GPIO")
    /\ hlock' = unlock(hlock, callers[c].led)
    /\ UNCHANGED <<fixed, fnvars, blink_handles, blink_lock, tasks, ncalls>>

\* LedController::on
on(c) ==
    \/ /\ CanCall(c)
       /\ "on" \in env.ops[c]
       /\ \E led \in env.leds :
             Routed(led) /\ Call(c, "on", led, 0, "cancel_wait")
       /\ UNCHANGED <<fixed, fnvars, line, hlock, blink_handles, blink_lock, tasks>>
    \/ callers[c].op = "on" /\ cancel_blink_lock(c)
    \/ callers[c].op = "on" /\ cancel_blink(c)
    \/ callers[c].op = "on" /\ get_handle(c)
    \/ callers[c].op = "on" /\ lock_handle(c)
    \/ callers[c].op = "on" /\ write_handle(c)

\* LedController::off
off(c) ==
    \/ /\ CanCall(c)
       /\ "off" \in env.ops[c]
       /\ \E led \in env.leds :
             Routed(led) /\ Call(c, "off", led, 0, "cancel_wait")
       /\ UNCHANGED <<fixed, fnvars, line, hlock, blink_handles, blink_lock, tasks>>
    \/ callers[c].op = "off" /\ cancel_blink_lock(c)
    \/ callers[c].op = "off" /\ cancel_blink(c)
    \/ callers[c].op = "off" /\ get_handle(c)
    \/ callers[c].op = "off" /\ lock_handle(c)
    \/ callers[c].op = "off" /\ write_handle(c)

\* tokio::spawn of the blink task, after the handle lookup of blink
spawn(c) ==
    LET led == callers[c].led
        t == CHOOSE x \in Tasks \ Spawned : \A y \in Tasks \ Spawned : x <= y
    IN
    /\ callers[c].pc = "get"
    /\ IF led \in DOMAIN handles
       THEN /\ tasks' = [tasks EXCEPT ![t] =
                   [NoTask EXCEPT !.led = led, !.period = callers[c].period,
                                  !.pc = "sleep"]]
            /\ callers' = [callers EXCEPT ![c].pc = "insert_wait", ![c].task = t]
       ELSE /\ Return(c, "InvalidParameter")
            /\ UNCHANGED tasks
    /\ UNCHANGED <<fixed, fnvars, line, hlock, blink_handles, blink_lock, ncalls>>

\* blink_handles.write().await of blink
insert_lock(c) ==
    /\ callers[c].pc = "insert_wait"
    /\ blink_lock = 0
    /\ blink_lock' = c
    /\ callers' = [callers EXCEPT ![c].pc = "insert"]
    /\ UNCHANGED <<fixed, fnvars, line, hlock, blink_handles, tasks, ncalls>>

\* handles_write.insert(led, handle_task): a JoinHandle it replaces is
\* dropped, which detaches its task and does not abort it
insert(c) ==
    /\ callers[c].pc = "insert"
    /\ blink_handles' = Insert(blink_handles, callers[c].led, callers[c].task)
    /\ blink_lock' = drop(blink_lock)
    /\ Return(c, "Ok")
    /\ UNCHANGED <<fixed, fnvars, line, hlock, tasks, ncalls>>

\* The period check of blink, then its first await
blink_enter(base, c, led, frequency_ms) ==
    IF ~period_ok(frequency_ms)
    THEN Fail(base, c, "blink", led)
    ELSE /\ Cardinality(Spawned) + Cardinality(Spawning) < MaxTasks
         /\ CallFrom(base, c, "blink", led, frequency_ms, "cancel_wait")

\* LedController::blink
blink(c) ==
    \/ /\ CanCall(c)
       /\ "blink" \in env.ops[c]
       /\ \E led \in env.leds, frequency_ms \in env.periods :
             /\ RoutedBlink(led, frequency_ms)
             /\ blink_enter(IdleCaller, c, led, frequency_ms)
       /\ UNCHANGED <<fixed, fnvars, line, hlock, blink_handles, blink_lock, tasks>>
    \/ callers[c].op = "blink" /\ cancel_blink_lock(c)
    \/ callers[c].op = "blink" /\ cancel_blink(c)
    \/ callers[c].op = "blink" /\ spawn(c)
    \/ callers[c].op = "blink" /\ insert_lock(c)
    \/ callers[c].op = "blink" /\ insert(c)

\* The lights a call of the behaviour can name. The handle of any other
\* light is touched by all_off alone, which writes the 0 its line has had
\* since new().
Named == env.named

\* The handles of the other lights that the iteration of c has yielded
\* before the one it is at.
others(c) == callers[c].idx - 1 - Cardinality(callers[c].seen \ {callers[c].cur})

\* handles_read.iter(): a HashMap yields its entries in the order its hasher
\* decides, each entry once; any order is possible, and none is assumed to
\* be that of an earlier iteration. The lights the iteration of c can yield
\* next: a named light it has not yielded, or one of the others while some
\* are left (the iteration counts the others it has yielded, it does not
\* keep which).
iter(c) ==
    (Named \ callers[c].seen)
    \cup (IF others(c) < Cardinality(Leds \ Named) THEN Leds \ Named ELSE {})

\* The iterator and the guards of all_off are dropped when it returns.
Leave(c, res) ==
    callers' = [callers EXCEPT ![c].pc = "done", ![c].res = res,
                               ![c].cur = 0, ![c].seen = {}]

\* The iterator yields the entry of led and handle.lock().await is polled:
\* the mutex is taken at once, or the call is suspended until it is free.
loop_next(c, led) ==
    /\ callers' = [callers EXCEPT
           ![c].pc = IF mutex_free(led) THEN "loop_hold" ELSE "loop_wait",
           ![c].cur = led,
           ![c].seen = @ \cup ({led} \cap Named)]
    /\ hlock' = IF mutex_free(led) THEN [hlock EXCEPT ![mutex(led)] = c] ELSE hlock

\* set_value(0)? in the loop of all_off: the first failure returns, the last
\* handle ends the loop.
loop_write(c, led, ok) ==
    /\ set_value(led, 0, ok)
    /\ IF ~ok THEN Leave(c, "GPIO")
       ELSE IF callers[c].idx = LED_COUNT THEN Leave(c, "Ok")
       ELSE callers' = [callers EXCEPT ![c].pc = "loop_lock",
                                       ![c].idx = @ + 1, ![c].cur = 0]

\* LedController::all_off
all_off(c) ==
    \/ /\ CanCall(c)
       /\ "all_off" \in env.ops[c]
       /\ Call(c, "all_off", 0, 0, "clear_wait")
       /\ UNCHANGED <<fixed, fnvars, line, hlock, blink_handles, blink_lock, tasks>>
    \/ \* self.blink_handles.write().await
       /\ callers[c].pc = "clear_wait"
       /\ blink_lock = 0
       /\ blink_lock' = c
       /\ callers' = [callers EXCEPT ![c].pc = "clear"]
       /\ UNCHANGED <<fixed, fnvars, line, hlock, blink_handles, tasks, ncalls>>
    \/ \* abort every value, clear, drop the guard; then handles.read().await
       /\ callers[c].pc = "clear"
       /\ LET S == {blink_handles[k] : k \in DOMAIN blink_handles} IN
          /\ tasks' = abort_all(tasks, S)
          /\ callers' = [callers EXCEPT ![c].pc = "loop_lock", ![c].victims = S,
                                        ![c].idx = 1]
       /\ blink_handles' = << >>
       /\ blink_lock' = drop(blink_lock)
       /\ UNCHANGED <<fixed, fnvars, line, hlock, ncalls>>
    \/ \* for (led, handle) in handles_read.iter() { handle.lock().await
       /\ callers[c].pc = "loop_lock"
       /\ \E led \in iter(c) : loop_next(c, led)
       /\ UNCHANGED <<fixed, fnvars, line, blink_handles, blink_lock, tasks, ncalls>>
    \/ \* handle.lock().await resumes when the mutex is free
       /\ callers[c].pc = "loop_wait"
       /\ mutex_free(callers[c].cur)
       /\ hlock' = [hlock EXCEPT ![mutex(callers[c].cur)] = c]
       /\ callers' = [callers EXCEPT ![c].pc = "loop_hold"]
       /\ UNCHANGED <<fixed, fnvars, line, blink_handles, blink_lock, tasks, ncalls>>
    \/ \* set_value(0)?, and the guard dropped at the end of the body
       /\ callers[c].pc = "loop_hold"
       /\ \E ok \in Outcomes : loop_write(c, callers[c].cur, ok)
       /\ hlock' = unlock(hlock, callers[c].cur)
       /\ UNCHANGED <<fixed, fnvars, blink_handles, blink_lock, tasks, ncalls>>

\* ------------------------------------------------------------------------
\* The color-qualified operations: the resolver, then the light-id operation
\* ------------------------------------------------------------------------
Colored(via, subset, position) ==
    [IdleCaller EXCEPT !.via = via, !.subset = subset, !.position = position]

dispatch_swapped(state) == IF state = "On" THEN "off" ELSE "on"

\* match state { LedState::On => self.on(led), LedState::Off => self.off(led) }
dispatch(state) == IF state = "On" THEN "on" ELSE "off"

\* LedController::set_led_by_color
set_led_by_color(c, via, subset, position, state) ==
    LET led == get_led_from_subset(subset, position)
        base == Colored(via, subset, position)
    IN
    /\ CanCall(c)
    /\ IF led.tag # "Ok"
       THEN Fail(base, c, "none", 0)
       ELSE CallFrom(base, c, dispatch(state), led.val, 0, "cancel_wait")
    /\ UNCHANGED <<fixed, fnvars, line, hlock, blink_handles, blink_lock, tasks>>

green_on(c, position) == set_led_by_color(c, "green_on", GREEN_LEDS, position, "On")
green_off(c, position) == set_led_by_color(c, "green_off", GREEN_LEDS, position, "Off")
amber_on(c, position) == set_led_by_color(c, "amber_on", AMBER_LEDS, position, "On")
amber_off(c, position) == set_led_by_color(c, "amber_off", AMBER_LEDS, position, "Off")
red_on(c, position) == set_led_by_color(c, "red_on", RED_LEDS, position, "On")
red_off(c, position) == set_led_by_color(c, "red_off", RED_LEDS, position, "Off")

\* LedController::blink_by_color
blink_by_color(c, subset, position, frequency_ms) ==
    LET led == get_led_from_subset(subset, position)
        base == Colored("blink_by_color", subset, position)
    IN
    /\ CanCall(c)
    /\ IF led.tag # "Ok"
       THEN Fail(base, c, "none", 0)
       ELSE blink_enter(base, c, led.val, frequency_ms)
    /\ UNCHANGED <<fixed, fnvars, line, hlock, blink_handles, blink_lock, tasks>>

\* ------------------------------------------------------------------------
\* The blink task: loop { tick; lock; toggle; set_value }
\* ------------------------------------------------------------------------
\* interval.tick().await completes and the task is polled
task_tick(t) ==
    /\ tasks[t].pc = "sleep"
    /\ tasks' = [tasks EXCEPT ![t].pc = "ready"]
    /\ UNCHANGED <<fixed, fnvars, line, hlock, blink_handles, blink_lock, callers, ncalls>>

\* handle.lock().await: taken at once, or Pending (where an abort is seen)
task_lock(t) ==
    /\ tasks[t].pc \in {"ready", "waitlock"}
    /\ env.history => tasks[t].ticks < MaxTicks
    /\ IF mutex_free(tasks[t].led)
       THEN /\ hlock' = [hlock EXCEPT ![mutex(tasks[t].led)] = -t]
            /\ tasks' = [tasks EXCEPT ![t].pc = "hold"]
       ELSE /\ tasks[t].pc = "ready"
            /\ tasks' = [tasks EXCEPT ![t] =
                            IF @.aborted THEN Dropped(@)
                            ELSE [@ EXCEPT !.pc = "waitlock"]]
            /\ UNCHANGED hlock
    /\ UNCHANGED <<fixed, fnvars, line, blink_handles, blink_lock, callers, ncalls>>

\* state = !state; let _ = set_value(..); drop the guard; then the next
\* interval.tick().await is ready at once or Pending (where an abort is seen)
task_write(t) ==
    LET v == level(toggle(tasks[t].state)) IN
    /\ tasks[t].pc = "hold"
    /\ hlock' = unlock(hlock, tasks[t].led)
    /\ \E ok \in Outcomes, ready \in BOOLEAN :
          /\ set_value(tasks[t].led, v, ok)
          /\ tasks' = [tasks EXCEPT ![t] =
                 IF ~discard(ok) THEN [@ EXCEPT !.pc = "dead"]
                 ELSE IF ready
                      THEN Recorded([@ EXCEPT !.state = toggle(@), !.pc = "ready"], v)
                 ELSE IF @.aborted THEN Dropped(@)
                 ELSE Recorded([@ EXCEPT !.state = toggle(@), !.pc = "sleep"], v)]
    /\ UNCHANGED <<fixed, fnvars, blink_handles, blink_lock, callers, ncalls>>

blink_task(t) == task_tick(t) \/ task_lock(t) \/ task_write(t)

\* ------------------------------------------------------------------------
\* Specifications
\* ------------------------------------------------------------------------
Start(e) ==
    /\ new
    /\ callers = [c \in CallerIds |-> IdleCaller]
    /\ ncalls = 0
    /\ env = e @@ [named |->
                      {led \in Leds :
                          \/ led \in e.leds
                          \/ \E subset \in Subsets : \E position \in e.positions :
                                get_led_from_subset(subset, position) = Ok(led)}]
    /\ fnArg = [fn |-> "none", subset |-> GREEN_LEDS, n |-> 0]
    /\ fnRet = [tag |-> "none", val |-> 0]

Step ==
    \/ \E c \in CallerIds : on(c) \/ off(c) \/ blink(c) \/ all_off(c)
    \/ \E t \in Tasks : blink_task(t)

\* The operations on one light, and the blink tasks
StepLight ==
    \/ \E c \in CallerIds : on(c) \/ off(c) \/ blink(c)
    \/ \E t \in Tasks : blink_task(t)

LightOps == {"on", "off", "blink"}
AllOps == LightOps \cup {"all_off"}

\* Concurrent HTTP handlers (server.rs): the requests carry any light id and
\* any period, the handlers pass on those their guards accept. One client
\* requests all_off, the other the routes of one light.
Init ==
    Start([callers |-> {1, 2}, leds |-> {3, 25}, periods |-> {0, 100},
           ops |-> [c \in CallerIds |-> IF c = 1 THEN {"all_off"} ELSE LightOps],
           faults |-> FALSE, server |-> TRUE,
           maxCalls |-> MaxCalls, history |-> FALSE,
           positions |-> {}])
Next == Step
Spec == Init /\ [][Next]_vars

\* Concurrent HTTP handlers of the routes of one light, over two lights
InitPair ==
    Start([callers |-> {1, 2}, leds |-> {3, 17, 25}, periods |-> {0, 100},
           ops |-> [c \in CallerIds |-> LightOps],
           faults |-> FALSE, server |-> TRUE,
           maxCalls |-> MaxCalls, history |-> FALSE,
           positions |-> {}])
NextPair == StepLight
SpecPair == InitPair /\ [][NextPair]_vars

\* Concurrent HTTP handlers of the all_off route alone: several all_off()
\* at once on one controller
InitSweep ==
    Start([callers |-> {1, 2}, leds |-> {}, periods |-> {},
           ops |-> [c \in CallerIds |-> {"all_off"}],
           faults |-> FALSE, server |-> TRUE,
           maxCalls |-> MaxCalls, history |-> FALSE,
           positions |-> {}])
NextSweep == \E c \in CallerIds : all_off(c)
SpecSweep == InitSweep /\ [][NextSweep]_vars

\* One owner of a LedController (the type lib.rs exports) making its calls
\* one after the other, with any arguments, on hardware whose writes may fail
InitSeq ==
    Start([callers |-> {1}, leds |-> {0, 3, 25}, periods |-> {0, 100, 250},
           ops |-> [c \in CallerIds |-> AllOps],
           faults |-> TRUE, server |-> FALSE,
           maxCalls |-> MaxCalls, history |-> FALSE,
           positions |-> {}])
SpecSeq == InitSeq /\ [][Next]_vars

\* One call of an operation on one light, with a light id that is any u8
\* outside 1..24, or 1, or 24
InitIds ==
    Start([callers |-> {1}, leds |-> (U8 \ Leds) \cup {1, LED_COUNT},
           periods |-> {0, 100},
           ops |-> [c \in CallerIds |-> LightOps],
           faults |-> TRUE, server |-> FALSE,
           maxCalls |-> 1, history |-> FALSE,
           positions |-> {}])
SpecIds == InitIds /\ [][NextPair]_vars

\* Concurrent callers under fair scheduling. The runtime polls every call
\* that can take a step (the Mutex and the RwLock of tokio hand the lock to
\* their waiters in FIFO order) and runs the synchronous write of a blink
\* task that holds a handle mutex to its end. Less is assumed here: when
\* some call in progress can step infinitely often, some call steps, and
\* when some task stays at its write, some task writes.
Running(c) == callers[c].pc \notin {"idle", "done"}

Proceed(c) == Running(c) /\ (on(c) \/ off(c) \/ blink(c) \/ all_off(c))

Fairness ==
    /\ SF_vars(\E c \in CallerIds : Proceed(c))
    /\ WF_vars(\E t \in Tasks : task_write(t))

InitLive == Init
SpecLive == InitLive /\ [][Next]_vars /\ Fairness

\* One caller on hardware whose writes may fail, each blink task keeping the
\* history of its writes, at most MaxTicks of them
InitHist ==
    Start([callers |-> {1}, leds |-> {3}, periods |-> {100},
           ops |-> [c \in CallerIds |-> AllOps],
           faults |-> TRUE, server |-> FALSE,
           maxCalls |-> MaxCalls, history |-> TRUE,
           positions |-> {}])
SpecHist == InitHist /\ [][Next]_vars

\* One caller making one call more of the operations on one light, over two
\* lights and an invalid id
InitFrame ==
    Start([callers |-> {1}, leds |-> {3, 17, 25}, periods |-> {100},
           ops |-> [c \in CallerIds |-> LightOps],
           faults |-> FALSE, server |-> FALSE,
           maxCalls |-> MaxCalls + 1, history |-> FALSE,
           positions |-> {}])
SpecFrame == InitFrame /\ [][NextPair]_vars

\* One caller that makes the calls on one light by id and by color
InitColor ==
    Start([callers |-> {1}, leds |-> {25}, periods |-> {0, 100},
           ops |-> [c \in CallerIds |-> LightOps],
           faults |-> FALSE, server |-> FALSE,
           maxCalls |-> MaxCalls, history |-> FALSE,
           positions |-> {0, 2, 13}])

ByColor ==
    \E c \in CallerIds : \E position \in env.positions :
        \/ green_on(c, position)
        \/ green_off(c, position)
        \/ amber_on(c, position)
        \/ amber_off(c, position)
        \/ red_on(c, position)
        \/ red_off(c, position)
        \/ \E subset \in {GREEN_LEDS, AMBER_LEDS, RED_LEDS} :
              \E frequency_ms \in env.periods :
                 blink_by_color(c, subset, position, frequency_ms)

NextColor == StepLight \/ ByColor
SpecColor == InitColor /\ [][NextColor]_vars

\* The pure functions applied to every argument

InitFn ==
    /\ new
    /\ callers = [c \in CallerIds |-> IdleCaller]
    /\ ncalls = 0
    /\ env = [callers |-> {}, leds |-> {}, periods |-> {},
              ops |-> [c \in CallerIds |-> {}],
              faults |-> FALSE, server |-> FALSE, maxCalls |-> 0, history |-> FALSE,
              positions |-> {}, named |-> {}]
    /\ fnArg \in [fn : {"led_to_gpio_pin", "get_led_from_subset", "is_valid_led"},
                   subset : Subsets, n : U8]
    /\ fnRet = [tag |-> "none", val |-> 0]

Apply ==
    /\ fnRet.tag = "none"
    /\ fnRet' = CASE fnArg.fn = "led_to_gpio_pin" -> led_to_gpio_pin(fnArg.n)
                  [] fnArg.fn = "get_led_from_subset" ->
                        get_led_from_subset(fnArg.subset, fnArg.n)
                  [] fnArg.fn = "is_valid_led" ->
                        [tag |-> "bool", val |-> IF is_valid_led(fnArg.n) THEN 1 ELSE 0]
    /\ UNCHANGED <<handles, line, hlock, blink_handles, blink_lock, tasks, callers,
                   ncalls, env, fnArg>>

NextFn == Apply
SpecFn == InitFn /\ [][NextFn]_vars

\* ------------------------------------------------------------------------
\* Properties
\* ------------------------------------------------------------------------
TypeOK ==
    /\ handles \in [Leds -> 0..255]
    /\ line \in [{handles[led] : led \in Leds} -> {0, 1}]
    /\ \A m \in DOMAIN hlock : hlock[m] \in CallerIds \cup {0} \cup {-t : t \in Tasks}
    /\ DOMAIN blink_handles \subseteq Leds
    /\ \A led \in DOMAIN blink_handles : blink_handles[led] \in Spawned
    /\ blink_lock \in CallerIds \cup {0}
    /\ \A t \in Tasks :
          /\ tasks[t].pc \in {"none", "sleep", "ready", "waitlock", "hold", "dead"}
          /\ tasks[t].pc # "none" => tasks[t].led \in Leds /\ tasks[t].period > 0
    /\ \A c \in CallerIds :
          /\ callers[c].op \in AllOps \cup {"none"}
          /\ callers[c].res \in {"none", "Ok", "InvalidParameter", "GPIO"}
          /\ callers[c].led \in U8
          /\ callers[c].idx \in 0..LED_COUNT
          /\ callers[c].cur \in Leds \cup {0}
          /\ callers[c].seen \subseteq Named
          /\ Cardinality(callers[c].seen) <= callers[c].idx
          /\ callers[c].pc \in {"loop_wait", "loop_hold"} => callers[c].cur \in Leds
          /\ callers[c].pc = "loop_hold" => hlock[mutex(callers[c].cur)] = c
          /\ callers[c].pc = "loop_wait" => hlock[mutex(callers[c].cur)] # c
          /\ callers[c].led \in Leds => callers[c].led \in Named
    /\ \A led \in Leds \ Named :
          /\ line[handles[led]] = 0
          /\ led \notin DOMAIN blink_handles
          /\ \A t \in Spawned : tasks[t].led # led
    /\ ncalls \in 0..env.maxCalls

Pin(led) == line[handles[led]]

\* The call of caller c has returned Ok and is one of ops.
ReturnedOk(c, ops) ==
    /\ callers[c].pc = "done"
    /\ callers[c].op \in ops
    /\ callers[c].res = "Ok"

Requested(c) == IF callers[c].op = "on" THEN 1 ELSE 0

LiveFor(led) == {t \in Tasks : Live(t) /\ tasks[t].led = led}

\* Task t performs its write in this step.
Writes(t) == tasks[t].pc = "hold" /\ tasks'[t].pc # "hold"

\* C1: once on(led) or off(led) has returned Ok, the pin holds the requested
\* value and the blink task the call cancelled never writes to the pin again:
\* the explicit write is the last one.
C1_ExplicitWriteIsLast ==
    [][\A c \in CallerIds : \A t \in Tasks :
          (ReturnedOk(c, {"on", "off"}) /\ t \in callers[c].victims) =>
              (Pin(callers[c].led) = Requested(c) /\ ~Writes(t))]_vars

\* C2: at most one live blink task per light, and every live task (whose
\* blink call has returned) is the one the registry holds for its light.
C2_OneLiveRegisteredTask ==
    \A led \in Leds :
        /\ Cardinality(LiveFor(led)) <= 1
        /\ \A t \in LiveFor(led) :
              (\A c \in CallerIds :
                  ~(callers[c].task = t /\ callers[c].pc \in {"insert_wait", "insert"}))
              => (led \in DOMAIN blink_handles /\ blink_handles[led] = t)

\* C3: after all_off() has returned Ok the registry is empty, no blink task is
\* live and every line reads 0, for as long as no later call is made.
C3_AllOffLeavesDark ==
    \A c \in CallerIds :
        ReturnedOk(c, {"all_off"}) =>
            /\ DOMAIN blink_handles = {}
            /\ \A t \in Tasks : ~Live(t)
            /\ \A p \in DOMAIN line : line[p] = 0

\* C4: blink(led, p1) and then blink(led, p2): never two live tasks for led;
\* when the second call has returned, the only live task of led is the one it
\* spawned, it ticks with p2, it is the registered one, and the task of the
\* first call has been aborted.
C4_BlinkReplacesBlink ==
    /\ \A t, u \in Tasks :
          (t # u /\ Live(t) /\ Live(u)) => tasks[t].led # tasks[u].led
    /\ \A c \in CallerIds :
          ReturnedOk(c, {"blink"}) =>
              /\ LiveFor(callers[c].led) = {callers[c].task}
              /\ tasks[callers[c].task].period = callers[c].period
              /\ callers[c].led \in DOMAIN blink_handles
              /\ blink_handles[callers[c].led] = callers[c].task
              /\ \A v \in callers[c].victims : tasks[v].aborted

C4_Witness ==
    \E c \in CallerIds :
        /\ ReturnedOk(c, {"blink"})
        /\ \E v \in callers[c].victims :
              /\ tasks[v].led = callers[c].led
              /\ tasks[v].period # callers[c].period
              /\ tasks[v].aborted

\* C5: after blink(led, p) has returned and on(led) or off(led) has then
\* returned Ok, the registry has no entry for led and the pin reads the
\* requested value.
C5_BlinkThenExplicit ==
    \A c \in CallerIds :
        (ReturnedOk(c, {"on", "off"}) /\ callers[c].victims # {}) =>
            /\ callers[c].led \notin DOMAIN blink_handles
            /\ Pin(callers[c].led) = Requested(c)

\* C6: blink(led, 0) returns InvalidParameter in the step that calls it,
\* spawns no task and leaves the registry as it was.
C6_ZeroPeriodRejected ==
    [][\A c \in CallerIds :
          (callers'[c] # callers[c] /\ callers'[c].op = "blink"
              /\ callers'[c].period = 0) =>
              /\ callers'[c].pc = "done"
              /\ callers'[c].res = "InvalidParameter"
              /\ callers'[c].task = 0
              /\ tasks' = tasks
              /\ blink_handles' = blink_handles]_vars

C6_Witness ==
    \E c \in CallerIds :
        /\ callers[c].op = "blink" /\ callers[c].period = 0
        /\ callers[c].pc = "done" /\ callers[c].res = "InvalidParameter"
        /\ callers[c].led \in DOMAIN blink_handles
        /\ Live(blink_handles[callers[c].led])

\* C7: the line of light id is id + 3 (lines 4..27, one per light); a call of
\* on, off or blink (period > 0) with an id outside 1..24 never reaches a
\* write or a spawn, returns InvalidParameter, and leaves every line and the
\* set of tasks as new() made them.
BadId(c) ==
    /\ callers[c].op \in {"on", "off", "blink"}
    /\ ~(callers[c].op = "blink" /\ callers[c].period = 0)
    /\ ~(callers[c].led >= 1 /\ callers[c].led <= 24)

C7_PinMapAndIdRange ==
    /\ \A led \in U8 :
          led_to_gpio_pin(led) =
              IF led \in 1..24 THEN Ok(led + 3) ELSE InvalidParameter
    /\ DOMAIN handles = 1..24
    /\ \A led \in 1..24 : handles[led] = led + 3
    /\ \A a, b \in 1..24 : a # b => handles[a] # handles[b]
    /\ DOMAIN line = 4..27
    /\ \A t \in Spawned : tasks[t].led \in 1..24
    /\ \A c \in CallerIds :
          BadId(c) =>
              /\ callers[c].pc \in {"cancel_wait", "cancel", "get", "done"}
              /\ callers[c].task = 0
              /\ callers[c].pc = "done" => callers[c].res = "InvalidParameter"
              /\ ncalls = 1 => (Spawned = {} /\ \A p \in DOMAIN line : line[p] = 0)

C7_Witness ==
    \E c \in CallerIds :
        /\ BadId(c)
        /\ callers[c].op = "blink" /\ callers[c].led = 255
        /\ callers[c].pc = "done" /\ callers[c].res = "InvalidParameter"

\* C8: resolve(subset, position) is subset.start + position - 1 for
\* 1 <= position <= subset.length and InvalidParameter otherwise; results lie
\* in the subset and differ for different (subset, position).
Length(subset) ==
    CASE subset = GREEN_LEDS -> 6 [] subset = AMBER_LEDS -> 6 [] subset = RED_LEDS -> 12

First(subset) ==
    CASE subset = GREEN_LEDS -> 1 [] subset = AMBER_LEDS -> 7 [] subset = RED_LEDS -> 13

Resolved == fnArg.fn = "get_led_from_subset" /\ fnRet.tag # "none"

C8_ResolveSubset ==
    Resolved =>
        /\ (fnArg.n >= 1 /\ fnArg.n <= Length(fnArg.subset))
              => /\ fnRet = Ok(First(fnArg.subset) + fnArg.n - 1)
                 /\ fnRet.val >= First(fnArg.subset)
                 /\ fnRet.val <= First(fnArg.subset) + Length(fnArg.subset) - 1
                 /\ \A s \in Subsets : \A q \in U8 :
                       (<<s, q>> # <<fnArg.subset, fnArg.n>>)
                           => get_led_from_subset(s, q) # fnRet
        /\ ~(fnArg.n >= 1 /\ fnArg.n <= Length(fnArg.subset))
              => fnRet = InvalidParameter
        /\ (fnArg.subset = RED_LEDS /\ fnArg.n = 2) => fnRet = Ok(14)
        /\ (fnArg.subset = GREEN_LEDS /\ fnArg.n = 1) => fnRet = Ok(1)
        /\ (fnArg.subset = AMBER_LEDS /\ fnArg.n = 6) => fnRet = Ok(12)
        /\ (fnArg.subset = RED_LEDS /\ fnArg.n = 13) => fnRet = InvalidParameter

C8_Witness ==
    /\ Resolved
    /\ fnArg.subset = RED_LEDS /\ fnArg.n = 12
    /\ fnRet = Ok(24)

\* C9: on(a) and on(b) running at the same time for lights a # b: neither
\* waits for a handle mutex the other holds, whoever holds the registry lock
\* is inside its short critical section, and when these two calls are the
\* only ones made, both have returned Ok with both pins at 1.
BothOn(c, d) ==
    /\ c # d
    /\ callers[c].op = "on" /\ callers[d].op = "on"
    /\ callers[c].led \in Leds /\ callers[d].led \in Leds
    /\ callers[c].led # callers[d].led

C9_DifferentLightsIndependent ==
    \A c, d \in CallerIds :
        BothOn(c, d) =>
            /\ callers[c].pc = "lock" => hlock[mutex(callers[c].led)] # d
            /\ (callers[c].pc = "cancel_wait" /\ blink_lock = d)
                  => callers[d].pc = "cancel"
            /\ (ncalls = 2 /\ callers[c].pc = "done" /\ callers[d].pc = "done"
                  /\ callers[c].res = "Ok" /\ callers[d].res = "Ok")
                  => (Pin(callers[c].led) = 1 /\ Pin(callers[d].led) = 1)
            /\ (ncalls = 2 /\ callers[c].pc = "done")
                  => callers[c].res = "Ok"

C9_Witness ==
    \E c, d \in CallerIds :
        /\ BothOn(c, d)
        /\ callers[c].led = 3 /\ callers[d].led = 17
        /\ callers[c].pc = "hold" /\ callers[d].pc = "hold"

\* C10: every actor that is at a write of a light holds that light's handle
\* mutex, and no two actors are at a write of the same light.
CallerWrites(c) ==
    IF callers[c].pc = "hold" THEN {callers[c].led}
    ELSE IF callers[c].pc = "loop_hold" THEN {callers[c].cur}
    ELSE {}

TaskWrites(t) == IF tasks[t].pc = "hold" THEN {tasks[t].led} ELSE {}

C10_WritesSerialised ==
    /\ \A c \in CallerIds : \A l \in CallerWrites(c) : hlock[mutex(l)] = c
    /\ \A t \in Tasks : \A l \in TaskWrites(t) : hlock[mutex(l)] = -t
    /\ \A c, d \in CallerIds : c # d => CallerWrites(c) \cap CallerWrites(d) = {}
    /\ \A c \in CallerIds : \A t \in Tasks : CallerWrites(c) \cap TaskWrites(t) = {}
    /\ \A t, u \in Tasks : t # u => TaskWrites(t) \cap TaskWrites(u) = {}

C10_Witness ==
    \E t \in Tasks : \E c \in CallerIds :
        /\ tasks[t].pc = "waitlock"
        /\ tasks[t].led \in CallerWrites(c)

\* C11: no deadlock and no call that blocks for ever: whoever holds the
\* registry lock or a handle mutex is at the step that releases it, waiting
\* for nothing, and under fair scheduling every call of on, off, blink and
\* all_off that has started returns: the callers make a bounded number of
\* calls, so from some point on no call is in progress.
C11_EveryCallReturns ==
    /\ [](\A c \in CallerIds :
            /\ blink_lock = c => callers[c].pc \in {"cancel", "insert", "clear"}
            /\ \A m \in DOMAIN hlock :
                  hlock[m] = c => callers[c].pc \in {"hold", "loop_hold"})
    /\ [](\A t \in Tasks : \A m \in DOMAIN hlock :
            hlock[m] = -t => tasks[t].pc = "hold")
    /\ <>[](\A c \in CallerIds : ~Running(c))

\* all_off() is suspended at the lock of a light whose blink task, spawned by
\* a blink that has returned, holds the mutex for its write.
C11_Witness ==
    \E c, d \in CallerIds : \E t \in Tasks :
        /\ c # d
        /\ ReturnedOk(d, {"blink"}) /\ callers[d].task = t
        /\ callers[c].pc = "loop_wait" /\ callers[c].cur = tasks[t].led
        /\ hlock[mutex(tasks[t].led)] = -t

\* C12: all_off() is best-effort: when it has returned, with or without a
\* failed write, it has attempted the write of 0 on every one of the 24
\* lights (its iteration has reached the last handle).
C12_AllOffBestEffort ==
    \A c \in CallerIds :
        (callers[c].op = "all_off" /\ callers[c].pc = "done") =>
            callers[c].idx = LED_COUNT

\* The value task t is about to write.
Attempt(t) == level(toggle(tasks[t].state))

\* C13: a blink task ends only by being cancelled, and a write of a tick that
\* fails (the line does not take the value attempted) changes nothing else:
\* the registry keeps its entries and a task that has not been cancelled stays
\* live, at its timer or at its next tick.
C13_FailedWriteKeepsTask ==
    /\ [](\A t \in Tasks : tasks[t].pc = "dead" => tasks[t].aborted)
    /\ [][\A t \in Tasks :
            (Writes(t) /\ line'[handles[tasks[t].led]] # Attempt(t)) =>
                /\ blink_handles' = blink_handles
                /\ tasks'[t].aborted = tasks[t].aborted
                /\ ~tasks[t].aborted =>
                      /\ tasks'[t].pc \in {"sleep", "ready"}
                      /\ tasks'[t].ticks = tasks[t].ticks + 1]_vars

\* The second write of the task failed (the pin still shows the 1 of the
\* first), and the task, live and registered, is at its third write.
C13_Witness ==
    \E t \in Tasks :
        /\ ncalls = 1
        /\ Live(t)
        /\ tasks[t].led \in DOMAIN blink_handles
        /\ blink_handles[tasks[t].led] = t
        /\ tasks[t].ticks = 2 /\ tasks[t].wrote = 0
        /\ Pin(tasks[t].led) = 1
        /\ tasks[t].pc = "hold"

\* C14: a cancelled task completes at most one write after its cancellation:
\* a task that has completed one since it was aborted is never at a write
\* again.
C14_OneWriteAfterCancel ==
    \A t \in Tasks : tasks[t].pc = "hold" => tasks[t].late = 0

\* C18: the writes a blink task attempts alternate, starting with 1: after k
\* attempts, failed or not, its toggle is on exactly when k is odd and the
\* value of the k-th attempt was 1 for odd k and 0 for even k; a task that has
\* just been spawned has its toggle off, so its first write is 1.
C18_ToggleAlternates ==
    \A t \in Tasks :
        tasks[t].pc \notin {"none", "dead"} =>
            /\ tasks[t].state = (tasks[t].ticks % 2 = 1)
            /\ tasks[t].ticks >= 1 =>
                  tasks[t].wrote = (IF tasks[t].ticks % 2 = 1 THEN 1 ELSE 0)
            /\ Attempt(t) = (IF tasks[t].ticks % 2 = 0 THEN 1 ELSE 0)

\* The task of a second blink has made its first write, of 1, while the task
\* it replaced still has its toggle on; and that write failed.
C18_Witness ==
    \E c \in CallerIds : \E v \in callers[c].victims :
        /\ ReturnedOk(c, {"blink"})
        /\ tasks[v].pc # "dead" /\ tasks[v].state
        /\ tasks[callers[c].task].ticks = 1
        /\ tasks[callers[c].task].wrote = 1
        /\ tasks[callers[c].task].led = tasks[v].led
        /\ Pin(tasks[v].led) = 0

\* C15: stopping a light that has no registered task is a successful no-op,
\* and on/off of such a light is idempotent: every step of on(led) or off(led)
\* made while led is not registered leaves the registry and the tasks as they
\* are; the cancel step goes on to the handle lookup without an error and
\* without touching a line; the write changes no line when the pin already
\* has the requested value (the call made a second time) and no other line
\* ever; and the call ends Ok with the pin at the requested value, or with a
\* hardware error and every line as it was.
C15_StopIdempotent ==
    [][\A c \in CallerIds :
          (callers[c].op \in {"on", "off"} /\ Running(c)
              /\ callers'[c] # callers[c]
              /\ callers[c].led \in Leds
              /\ callers[c].led \notin DOMAIN blink_handles) =>
              /\ blink_handles' = blink_handles
              /\ tasks' = tasks
              /\ callers[c].pc = "cancel" =>
                    /\ callers'[c].pc = "get"
                    /\ callers'[c].victims = {}
                    /\ line' = line
              /\ (callers[c].pc = "hold" /\ Pin(callers[c].led) = Requested(c))
                    => line' = line
              /\ \A p \in DOMAIN line :
                    p # handles[callers[c].led] => line'[p] = line[p]
              /\ callers'[c].pc = "done" =>
                    \/ /\ callers'[c].res = "Ok"
                       /\ line'[handles[callers[c].led]] = Requested(c)
                    \/ /\ callers'[c].res = "GPIO"
                       /\ line' = line]_vars

\* on(led) is at its write a second time: no task was ever spawned, the
\* cancel of this call found nothing, and the pin is already 1.
C15_Witness ==
    \E c \in CallerIds :
        /\ ncalls = 2 /\ Spawned = {}
        /\ callers[c].op = "on" /\ callers[c].pc = "hold"
        /\ callers[c].victims = {}
        /\ DOMAIN blink_handles = {}
        /\ Pin(callers[c].led) = 1

\* C17: the lock of the blink registry is held only for the remove, insert
\* or clear step: its holder is a caller at that step, which holds no handle
\* mutex and waits for nothing; a caller that waits for a handle mutex, holds
\* one, looks a handle up or has returned does not hold it; no blink task
\* ever holds it.
C17_RegistryLockScope ==
    /\ blink_lock \in CallerIds \cup {0}
    /\ \A t \in Tasks : blink_lock # -t
    /\ \A c \in CallerIds :
          /\ blink_lock = c =>
                /\ callers[c].pc \in {"cancel", "insert", "clear"}
                /\ \A m \in DOMAIN hlock : hlock[m] # c
          /\ callers[c].pc \in {"cancel", "insert", "clear"} => blink_lock = c
          /\ callers[c].pc \in {"idle", "done", "get", "lock", "hold",
                                 "loop_lock", "loop_wait", "loop_hold",
                                 "cancel_wait",
                                 "insert_wait", "clear_wait"} => blink_lock # c

\* One caller holds the registry lock for its insert while the other waits
\* for it and a blink task is at its write.
C17_Witness ==
    \E c, d \in CallerIds : \E t \in Tasks :
        /\ blink_lock = c /\ callers[c].pc = "insert"
        /\ callers[d].pc \in {"cancel_wait", "clear_wait", "insert_wait"}
        /\ tasks[t].pc = "hold"

\* C20: every step of on(led), off(led) or blink(led, p) leaves the pin, the
\* registry entry and the spawned task of every other light as they are, and
\* a step of a blink task changes no line but that of its own light.
C20_PerLightFrame ==
    [][/\ \A c \in CallerIds :
            (callers'[c] # callers[c]
                /\ callers'[c].op \in {"on", "off", "blink"}) =>
                /\ line' # line =>
                      \A other \in Leds \ {callers'[c].led} :
                         line'[handles[other]] = line[handles[other]]
                /\ blink_handles' # blink_handles =>
                      \A other \in Leds \ {callers'[c].led} :
                         /\ (other \in DOMAIN blink_handles')
                               = (other \in DOMAIN blink_handles)
                         /\ other \in DOMAIN blink_handles =>
                               blink_handles'[other] = blink_handles[other]
                /\ \A t \in Spawned :
                      tasks[t].led # callers'[c].led => tasks'[t] = tasks[t]
       /\ \A t \in Tasks :
            tasks'[t] # tasks[t] /\ callers' = callers =>
                /\ blink_handles' = blink_handles
                /\ line' # line =>
                      \A other \in Leds \ {tasks[t].led} :
                         line'[handles[other]] = line[handles[other]]
                /\ \A u \in Tasks \ {t} : tasks'[u] = tasks[u]]_vars

\* Lights 3 and 17 were blinking and light 3 has been switched: its task is
\* cancelled and its entry gone, while the task of 17 is live and registered
\* and its pin lit.
C20_Witness ==
    \E c \in CallerIds : \E t \in Tasks :
        /\ ReturnedOk(c, {"on", "off"}) /\ callers[c].led = 3
        /\ callers[c].victims # {}
        /\ 3 \notin DOMAIN blink_handles
        /\ Live(t) /\ tasks[t].led = 17
        /\ 17 \in DOMAIN blink_handles /\ blink_handles[17] = t
        /\ Pin(17) = 1

\* The light-id call a color-qualified call stands for.
Stands(r) ==
    CASE r.via = "green_on" -> [op |-> "on", led |-> r.position]
      [] r.via = "green_off" -> [op |-> "off", led |-> r.position]
      [] r.via = "amber_on" -> [op |-> "on", led |-> 6 + r.position]
      [] r.via = "amber_off" -> [op |-> "off", led |-> 6 + r.position]
      [] r.via = "red_on" -> [op |-> "on", led |-> 12 + r.position]
      [] r.via = "red_off" -> [op |-> "off", led |-> 12 + r.position]
      [] r.via = "blink_by_color" ->
            [op |-> "blink", led |-> First(r.subset) + r.position - 1]

GoodPosition(r) == r.position >= 1 /\ r.position <= Length(r.subset)

\* The steps the light-id operations take once they have been called.
Continues(c) == Running(c) /\ (on(c) \/ off(c) \/ blink(c))

\* C16: a color-qualified call with a valid position is the light-id call
\* it stands for: it runs with that operation on that light, and each of its
\* steps is a step of on, off or blink; with a position outside
\* [1, subset.length] it has returned InvalidParameter in the step that made
\* it, with no task cancelled, no task spawned, no line written and no lock
\* taken.
C16_ColorOpsRefine ==
    /\ [](\A c \in CallerIds :
            callers[c].via # "none" =>
                IF GoodPosition(callers[c])
                THEN /\ callers[c].op = Stands(callers[c]).op
                     /\ callers[c].led = Stands(callers[c]).led
                     /\ callers[c].led \in Leds
                     /\ (callers[c].pc = "done"
                            /\ callers[c].res = "InvalidParameter")
                           => (callers[c].op = "blink" /\ callers[c].period = 0)
                ELSE /\ callers[c].pc = "done"
                     /\ callers[c].res = "InvalidParameter"
                     /\ callers[c].victims = {}
                     /\ callers[c].task = 0)
    /\ [][\A c \in CallerIds :
            (callers'[c] # callers[c] /\ callers'[c].via # "none") =>
                IF GoodPosition(callers'[c])
                THEN Running(c) => Continues(c)
                ELSE /\ line' = line /\ tasks' = tasks
                     /\ blink_handles' = blink_handles
                     /\ blink_lock' = blink_lock /\ hlock' = hlock]_vars

\* red_on(2) has returned Ok with light 14 lit.
C16_Witness ==
    \E c \in CallerIds :
        /\ callers[c].via = "red_on" /\ callers[c].position = 2
        /\ ReturnedOk(c, {"on"})
        /\ callers[c].led = 14 /\ Pin(14) = 1

\* A call that must fail with InvalidParameter: a position outside its
\* subset, a period of 0, a light id outside 1..24.
BadCall(r) ==
    \/ r.via # "none" /\ ~GoodPosition(r)
    \/ r.op = "blink" /\ r.period = 0
    \/ r.op \in {"on", "off", "blink"} /\ ~(r.led >= 1 /\ r.led <= 24)

\* C19: a call fails with InvalidParameter exactly when it is such a call,
\* and no step of such a call changes a line, a task or the registry: no task
\* is cancelled, spawned or registered again.
C19_InvalidParameterFrame ==
    /\ [](\A c \in CallerIds :
            /\ callers[c].res = "InvalidParameter" => BadCall(callers[c])
            /\ (BadCall(callers[c]) /\ callers[c].pc = "done")
                  => callers[c].res = "InvalidParameter"
            /\ BadCall(callers[c]) =>
                  (callers[c].victims = {} /\ callers[c].task = 0))
    /\ [][\A c \in CallerIds :
            (callers'[c] # callers[c] /\ BadCall(callers'[c])) =>
                /\ line' = line
                /\ tasks' = tasks
                /\ blink_handles' = blink_handles]_vars

\* blink_by_color(RED, 2, 0) has failed while light 14 is blinking: the task
\* of 14 is live, registered and keeps its period.
C19_Witness ==
    \E c \in CallerIds : \E t \in Tasks :
        /\ callers[c].via = "blink_by_color" /\ callers[c].led = 14
        /\ callers[c].pc = "done" /\ callers[c].res = "InvalidParameter"
        /\ 14 \in DOMAIN blink_handles /\ blink_handles[14] = t
        /\ Live(t) /\ tasks[t].period = 100

\* C21: a hardware failure rolls no cancellation back. When on(led) or
\* off(led) has returned a hardware error, led has no registry entry, the
\* task the call removed has been aborted and no live task is left for led;
\* when all_off() has returned one, the registry is empty, every task it
\* held has been aborted and no task is live. The step that returns the
\* error changes no line, no task and no registry entry: the pin keeps the
\* value it had before the failed write.
C21_NoRollback ==
    /\ [](\A c \in CallerIds :
            (callers[c].pc = "done" /\ callers[c].res = "GPIO") =>
                /\ callers[c].op \in {"on", "off", "all_off"}
                /\ \A v \in callers[c].victims : tasks[v].aborted
                /\ callers[c].op \in {"on", "off"} =>
                      /\ callers[c].led \notin DOMAIN blink_handles
                      /\ LiveFor(callers[c].led) = {}
                /\ callers[c].op = "all_off" =>
                      /\ DOMAIN blink_handles = {}
                      /\ \A t \in Tasks : ~Live(t))
    /\ [][\A c \in CallerIds :
            (callers'[c] # callers[c] /\ callers'[c].pc = "done"
                /\ callers'[c].res = "GPIO") =>
                /\ line' = line
                /\ tasks' = tasks
                /\ blink_handles' = blink_handles]_vars

\* off(3) has failed on a light that was blinking: its task is aborted, its
\* entry gone, and the pin still shows the 1 the task had written.
C21_Witness ==
    \E c \in CallerIds : \E v \in callers[c].victims :
        /\ callers[c].op = "off" /\ callers[c].pc = "done"
        /\ callers[c].res = "GPIO"
        /\ tasks[v].aborted /\ tasks[v].led = callers[c].led
        /\ callers[c].led \notin DOMAIN blink_handles
        /\ Pin(callers[c].led) = 1

====
